---- MODULE Spec2Model ----
(***************************************************************************)
(* A model of the microserver request pipeline                             *)
(*     Log -> GZip -> Handler -> http.FileServer      (main chain)         *)
(*     Log -> SslHandler                              (plain-HTTP listener *)
(*                                                     of the TLS variant) *)
(* together with main's start-up (access-log open, listeners).             *)
(*                                                                         *)
(* Strings are sequences of one-character strings, bytes are small         *)
(* integers.  The standard library pieces the handlers call (the           *)
(* net/http response, compress/gzip, http.NotFound, http.Redirect,         *)
(* os.OpenFile) are modelled by what they do at the call sites.            *)
(***************************************************************************)
EXTENDS Integers, Sequences, FiniteSets, TLC

\* ------------------------------------------------------------------ bounds
\* Most sink operations the file server performs on one request.
MaxOps == 2
\* Longest byte slice the file server passes to one Write.
MaxChunk == 2
\* Bytes the compressor buffers before it emits a block on its own.
FlateWindow == 3
\* Longest remote address the address normalisation is run on.
MaxAddrLen == 5

\* ----------------------------------------------------------------- strings
s_empty == << >>
s_gzip == <<"g", "z", "i", "p">>
s_GZIP == <<"G", "Z", "I", "P">>
s_xgzip == <<"x", "-", "g", "z", "i", "p">>
s_html == <<"h", "t", "m", "l">>
s_css == <<"c", "s", "s">>
s_https == <<"h", "t", "t", "p", "s">>
s_root == <<"/">>
s_index == <<"i", "n", "d", "e", "x", ".", "h", "t", "m", "l">>
s_a_HTML == <<"/", "a", ".", "H", "T", "M", "L">>
s_a_png == <<"/", "a", ".", "p", "n", "g">>
s_a_html_q == <<"/", "a", ".", "h", "t", "m", "l", "?", "v">>
s_a_png_q == <<"/", "a", ".", "p", "n", "g", "?", ".", "h", "t", "m", "l">>
s_ab == <<"a", "b">>
s_xab == <<"x", "a", "b", ":", "8">>
s_AB == <<"A", "B">>
s_addr == <<"h", ":", "8">>

UpperLetters == <<"A", "B", "G", "H", "I", "L", "M", "P", "T", "Z">>
LowerLetters == <<"a", "b", "g", "h", "i", "l", "m", "p", "t", "z">>

\* Case folding of one character, as the (?i) flag of the pattern does.
Lower(c) ==
    IF \E i \in 1..Len(UpperLetters) : UpperLetters[i] = c
    THEN LowerLetters[CHOOSE i \in 1..Len(UpperLetters) : UpperLetters[i] = c]
    ELSE c

ToLower(s) == [i \in 1..Len(s) |-> Lower(s[i])]

\* strings.Index(s, sub): the first position (from 0) of sub in s, or -1.
Index(s, sub) ==
    LET hits == {i \in 0..(Len(s) - Len(sub)) :
                    SubSeq(s, i + 1, i + Len(sub)) = sub}
    IN IF hits = {} THEN -1
       ELSE CHOOSE i \in hits : \A j \in hits : i <= j

\* strings.Contains(s, sub).
Contains(s, sub) == Index(s, sub) >= 0

HasSuffix(s, suf) ==
    /\ Len(suf) <= Len(s)
    /\ SubSeq(s, Len(s) - Len(suf) + 1, Len(s)) = suf

\* strings.Join(exts, "|") read back as the alternatives of the group: the
\* join of an empty list is the empty string, a group with one empty
\* alternative.
Alternatives(exts) == IF exts = << >> THEN << << >> >> ELSE exts

\* regexp.MustCompile("(?i)\\.(" + strings.Join(exts, "|") + ")$").Match(uri)
RegexpMatch(exts, uri) ==
    \E i \in 1..Len(Alternatives(exts)) :
        HasSuffix(ToLower(uri), <<".">> \o ToLower(Alternatives(exts)[i]))

\* ------------------------------------------------------- the response sink
\* The net/http response handed to Log.ServeHTTP: its header map, the status
\* it sent (0: none yet), the header map as it stood when the status went
\* out, the codes of the WriteHeader calls made on it, the bytes handed to
\* it and the bytes it took.
NewSink ==
    [status |-> 0,
     hdr |-> [ce |-> s_empty, hsts |-> FALSE, loc |-> s_empty, ctype |-> FALSE],
     sent |-> [ce |-> s_empty, hsts |-> FALSE, loc |-> s_empty, ctype |-> FALSE],
     codes |-> << >>,
     offered |-> << >>, delivered |-> << >>,
     failed |-> FALSE, broken |-> FALSE]

\* A 1xx, 204 or 304 response carries no body: the response refuses the bytes.
BodyAllowed(status) == ~(status \in {204, 304} \/ (status >= 100 /\ status < 200))

\* The response's WriteHeader: only the first status assignment counts.
SinkWriteHeader(s, code) ==
    IF s.status # 0 THEN s
    ELSE [s EXCEPT !.status = code, !.sent = s.hdr]

\* A handler's call of the response's WriteHeader.
ResponseWriteHeader(s, code) ==
    [SinkWriteHeader(s, code) EXCEPT !.codes = Append(@, code)]

\* The number of bytes of b the response takes: none once the connection is
\* gone or when the status allows no body.
SinkAccepts(s, b) ==
    IF s.broken \/ ~BodyAllowed(s.status) THEN 0 ELSE Len(b)

\* The response's Write: the first write sends status 200 if none was sent.
\* The result holds the new sink and the count n returned; the call returns
\* an error iff n < Len(b).
SinkWrite(s, b) ==
    LET s1 == SinkWriteHeader(s, 200)
        n == SinkAccepts(s1, b)
    IN [s |-> [s1 EXCEPT !.offered = @ \o b,
                         !.delivered = @ \o SubSeq(b, 1, n),
                         !.failed = @ \/ n < Len(b)],
        n |-> n]

\* ----------------------------------------------------------- the recorder
\* Writer{ResponseWriter: w}: Status and Bytes start at their zero values.
NewWriter == [Status |-> 0, Bytes |-> 0]

\* (w *Writer) Write(b): count len(b), then pass b to the wrapped sink and
\* return its result.  w is the pair [lw, sink].
WriterWrite(w, b) ==
    LET r == SinkWrite(w.sink, b)
    IN [w |-> [lw |-> [w.lw EXCEPT !.Bytes = @ + Len(b)], sink |-> r.s],
        n |-> r.n]

\* (w *Writer) WriteHeader(s): record s, then pass it on.
WriterWriteHeader(w, code) ==
    [lw |-> [w.lw EXCEPT !.Status = code],
     sink |-> ResponseWriteHeader(w.sink, code)]

\* --------------------------------------------------------- the compressor
\* The stream gzip.Writer produces, in miniature: a two-byte magic header,
\* run-length pairs <<count, byte>> for the data, a 0 ending the data, and a
\* trailer <<checksum, size>>.
GzHeader == <<31, 139>>

Checksum(data) ==
    LET RECURSIVE sum(_)
        sum(d) == IF d = << >> THEN 0 ELSE (Head(d) + sum(Tail(d))) % 251
    IN sum(data)

\* The length of the run of equal bytes d starts with.
RunOf(d) ==
    LET ends == {k \in 1..Len(d) :
                    /\ \A j \in 1..k : d[j] = d[1]
                    /\ (k = Len(d) \/ d[k + 1] # d[1])}
    IN CHOOSE k \in ends : TRUE

RECURSIVE RunLength(_)
RunLength(d) ==
    IF d = << >> THEN << >>
    ELSE <<RunOf(d), d[1]>> \o RunLength(SubSeq(d, RunOf(d) + 1, Len(d)))

Repeat(b, k) == [i \in 1..k |-> b]

RECURSIVE Inflate(_, _)
Inflate(rest, data) ==
    IF rest = << >> THEN [ok |-> FALSE, data |-> << >>]
    ELSE IF rest[1] = 0
    THEN IF /\ Len(rest) = 3
            /\ rest[2] = Checksum(data)
            /\ rest[3] = Len(data)
         THEN [ok |-> TRUE, data |-> data]
         ELSE [ok |-> FALSE, data |-> << >>]
    ELSE IF Len(rest) < 2 THEN [ok |-> FALSE, data |-> << >>]
    ELSE Inflate(SubSeq(rest, 3, Len(rest)), data \o Repeat(rest[2], rest[1]))

\* What a client's decompressor makes of the bytes it received: ok only for
\* a complete stream (header, data, end, matching trailer).
Gunzip(stream) ==
    IF Len(stream) < 2 \/ SubSeq(stream, 1, 2) # GzHeader
    THEN [ok |-> FALSE, data |-> << >>]
    ELSE Inflate(SubSeq(stream, 3, Len(stream)), << >>)

\* gzip.NewWriter(w): nothing is written until the first Write or Close.
NoGzip ==
    [on |-> FALSE, wroteHeader |-> FALSE, buf |-> << >>, size |-> 0,
     sum |-> 0, closed |-> FALSE, err |-> FALSE, closes |-> 0]

NewGzipWriter == [NoGzip EXCEPT !.on = TRUE]

\* gz.Write(b), reached through GzipWriter.Write: the header goes out with
\* the first write; the data is buffered and a block is emitted once the
\* buffer holds FlateWindow bytes.  A failed write to w sticks in g.err.
GzipWrite(g, w, b) ==
    IF g.err THEN [g |-> g, w |-> w]
    ELSE
      LET h == IF g.wroteHeader THEN [w |-> w, n |-> Len(GzHeader)]
               ELSE WriterWrite(w, GzHeader)
          g1 == [g EXCEPT !.wroteHeader = TRUE, !.err = h.n < Len(GzHeader)]
      IN IF g1.err THEN [g |-> g1, w |-> h.w]
         ELSE
           LET buf == g1.buf \o b
               g2 == [g1 EXCEPT !.size = @ + Len(b),
                                !.sum = (@ + Checksum(b)) % 251]
           IN IF Len(buf) < FlateWindow
              THEN [g |-> [g2 EXCEPT !.buf = buf], w |-> h.w]
              ELSE LET f == WriterWrite(h.w, RunLength(buf))
                   IN [g |-> [g2 EXCEPT !.buf = << >>,
                                        !.err = f.n < Len(RunLength(buf))],
                       w |-> f.w]

\* GzipClose with the close left out: the compressor is dropped as it stands.
GzipCloseOmitted(g, w) == [g |-> [g EXCEPT !.closed = TRUE], w |-> w]

\* gz.Close(): the header if no write sent it, the buffered data and the end
\* of the data, then the trailer; nothing after an earlier error.
GzipClose(g, w) ==
    IF g.err \/ g.closed THEN [g |-> g, w |-> w]
    ELSE
      LET c == [g EXCEPT !.closed = TRUE]
          h == IF c.wroteHeader THEN [g |-> c, w |-> w]
               ELSE GzipWrite(c, w, << >>)
      IN IF h.g.err THEN h
         ELSE
           LET last == RunLength(h.g.buf) \o <<0>>
               f == WriterWrite(h.w, last)
               g3 == [h.g EXCEPT !.buf = << >>, !.err = f.n < Len(last)]
           IN IF g3.err THEN [g |-> g3, w |-> f.w]
              ELSE LET t == WriterWrite(f.w, <<g3.sum, g3.size>>)
                   IN [g |-> [g3 EXCEPT !.err = t.n < 2], w |-> t.w]

\* ------------------------------------------------------------ the requests
\* r.URL as net/http parses an origin-form request target: no scheme, no
\* host, the path up to the first "?", the query after it.
ParseRequestURI(uri) ==
    LET q == Index(uri, <<"?">>)
    IN [Scheme |-> s_empty, Host |-> s_empty,
        Path |-> IF q < 0 THEN uri ELSE SubSeq(uri, 1, q),
        RawQuery |-> IF q < 0 THEN s_empty ELSE SubSeq(uri, q + 2, Len(uri))]

\* (*url.URL).String().
URLString(u) ==
    (IF u.Scheme # s_empty THEN u.Scheme \o <<":">> ELSE s_empty)
    \o (IF (u.Scheme # s_empty \/ u.Host # s_empty)
           /\ (u.Host # s_empty \/ u.Path # s_empty)
        THEN <<"/", "/">> ELSE s_empty)
    \o u.Host \o u.Path
    \o (IF u.RawQuery # s_empty THEN <<"?">> \o u.RawQuery ELSE s_empty)

\* The scheme a client reads off a Location value: what precedes the first
\* ":" when no "/" comes before it.
SchemeOf(loc) ==
    LET c == Index(loc, <<":">>)
        s == Index(loc, <<"/">>)
    IN IF c > 0 /\ (s < 0 \/ c < s) THEN SubSeq(loc, 1, c) ELSE s_empty

Listeners == {"http", "https"}
Hosts == {s_ab, s_xab, s_AB}
AcceptEncodings == {s_empty, s_xgzip, s_GZIP}
RequestURIs == {s_root, s_a_HTML, s_a_png, s_a_html_q, s_a_png_q}
Methods == {"GET", "POST"}
RemoteAddrs == {s_addr}

\* The characters a remote address is made of here (a host character, the
\* port separator, the brackets of a literal IPv6 address) and the
\* addresses up to MaxAddrLen characters.
AddrChars == {"h", ":", "[", "]"}
AddrInputs == UNION {[1..n -> AddrChars] : n \in 0..MaxAddrLen}

NewRequest(l, host, ae, uri, m, addr) ==
    [listener |-> l, Host |-> host, AcceptEncoding |-> ae, RequestURI |-> uri,
     Method |-> m, RemoteAddr |-> addr, URL |-> ParseRequestURI(uri)]

\* The requests one connection may carry: every Accept-Encoding with every
\* URI for the configured host, and every Host with every method for a
\* client that accepts gzip.
FullInputs ==
    {NewRequest(l, s_ab, ae, uri, "GET", a) :
        l \in Listeners, ae \in AcceptEncodings, uri \in RequestURIs,
        a \in RemoteAddrs}
    \cup
    {NewRequest(l, h, s_xgzip, uri, m, a) :
        l \in Listeners, h \in Hosts, uri \in {s_root, s_a_png},
        m \in Methods, a \in RemoteAddrs}

\* The requests of the runs with several connections at once.
NarrowInputs ==
    {NewRequest(l, s_ab, s_xgzip, uri, "GET", s_addr) :
        l \in Listeners, uri \in {s_a_HTML, s_a_png}}

NoRequest == NewRequest("http", s_empty, s_empty, s_empty, "GET", s_empty)

\* The byte slices and statuses the file server may pass to its sink.
\* The slices are the beginnings, up to MaxChunk bytes, of a content with a
\* run of equal bytes (1 1 2 1 1 2 ...) and of one without (2 1 2 1 ...).
Contents ==
    {[i \in 1..MaxChunk |-> IF i % 3 = 0 THEN 2 ELSE 1],
     [i \in 1..MaxChunk |-> IF i % 2 = 1 THEN 2 ELSE 1]}
Chunks == {SubSeq(c, 1, n) : c \in Contents, n \in 0..MaxChunk}
FileStatuses == {200, 304}
NarrowChunks == {<<1>>, <<2, 2>>}
NarrowStatuses == {304}

\* The body http.NotFound writes and the body http.Redirect writes for a GET
\* (their texts, shortened).
NotFoundBody == <<1, 2>>
RedirectBody == <<2>>

\* ------------------------------------------------------------ the process
\* The configurations config.json may hold.
Configs ==
    {[Hostname |-> s_ab, Gzip |-> <<s_html>>, SslEnabled |-> FALSE],
     [Hostname |-> s_ab, Gzip |-> <<s_css, s_html>>, SslEnabled |-> TRUE]}

\* os.O_CREATE|os.O_APPEND: no O_WRONLY and no O_RDWR among the flags, which
\* leaves the access mode at its zero value, O_RDONLY.
OpenFlags == {"O_CREATE", "O_APPEND"}

\* Whether a file opened with these flags takes writes.
HandleWritable(flags) == "O_WRONLY" \in flags \/ "O_RDWR" \in flags

Reqs == {1, 2}

VARIABLES
    config,     \* the Config read at start-up
    mainPc,     \* main's position: "init", "start", "serve"
    tlsPc,      \* the goroutine of the HTTPS listener: "none", "spawned"
    writer,     \* the log sink main chose: "none", "file", "stdout"
    lst,        \* each listener: "off", "listening", "failed"
    proc,       \* "running", or "exit0" once main has returned
    stderr,     \* what the process reported on its error stream
    fileLog,    \* the access-log file's content (tokens)
    stdoutLog,  \* the default output stream's content (tokens)
    pc,         \* each request's position in the chain
    req,        \* each request
    lw,         \* each request's recorder (Writer)
    gz,         \* each request's compressor
    sink,       \* each request's underlying response
    pending,    \* each request's Write calls on the log sink still to make
    logged,     \* the values each request's log line was formatted from
    hist        \* history of each request, for the properties (calls: the
                \* calls the handler made on its sink, a status code for a
                \* WriteHeader and 0 for a Write)

vars ==
    <<config, mainPc, tlsPc, writer, lst, proc, stderr, fileLog, stdoutLog,
      pc, req, lw, gz, sink, pending, logged, hist>>

mainVars == <<config, mainPc, tlsPc, writer, lst, proc>>
reqVars == <<pc, req, lw, gz, sink, pending, logged, hist>>
logVars == <<fileLog, stdoutLog>>

NoLine == [addr |-> s_empty, method |-> "", uri |-> s_empty, status |-> -1, bytes |-> -1]

NoHist ==
    [written |-> << >>, files |-> FALSE, panicked |-> FALSE, ops |-> 0,
     visited |-> {}, logIssued |-> << >>, lost |-> FALSE,
     handlerW |-> "", filesW |-> "", calls |-> << >>]

Init ==
    /\ config \in Configs
    /\ mainPc = "init"
    /\ tlsPc = "none"
    /\ writer = "none"
    /\ lst = [l \in Listeners |-> "off"]
    /\ proc = "running"
    /\ stderr = {}
    /\ fileLog = << >>
    /\ stdoutLog = << >>
    /\ pc = [r \in Reqs |-> "idle"]
    /\ req = [r \in Reqs |-> NoRequest]
    /\ lw = [r \in Reqs |-> NewWriter]
    /\ gz = [r \in Reqs |-> NoGzip]
    /\ sink = [r \in Reqs |-> NewSink]
    /\ pending = [r \in Reqs |-> << >>]
    /\ logged = [r \in Reqs |-> NoLine]
    /\ hist = [r \in Reqs |-> NoHist]

\* ------------------------------------------------------------------- main
\* main, the os.OpenFile of the access log: the file when the open
\* succeeds, os.Stdout when it fails.
ChooseWriter(opened) == IF opened THEN "file" ELSE "stdout"

MainOpenLog ==
    /\ proc = "running"
    /\ mainPc = "init"
    /\ \E opened \in BOOLEAN : writer' = ChooseWriter(opened)
    /\ mainPc' = "start"
    /\ UNCHANGED <<config, tlsPc, lst, proc, stderr>>
    /\ UNCHANGED <<logVars, reqVars>>

\* main, after the handler chain is built: with SSL enabled the HTTPS
\* listener gets a goroutine of its own and main goes on to the HTTP one.
MainStart ==
    /\ proc = "running"
    /\ mainPc = "start"
    /\ mainPc' = "serve"
    /\ tlsPc' = IF config.SslEnabled THEN "spawned" ELSE tlsPc
    /\ UNCHANGED <<config, writer, lst, proc, stderr>>
    /\ UNCHANGED <<logVars, reqVars>>

\* What the process reports when a listener's ListenAndServe[TLS] returns its
\* error: the return value is dropped at both call sites.
ReportListenError(l, out) == out

\* What becomes of the process when listener l's ListenAndServe[TLS] returns:
\* main blocks on the HTTP listener and returns after it, which ends the
\* process with status 0; the HTTPS goroutine just ends.
AfterListenReturn(l, p) == IF l = "http" THEN "exit0" ELSE p

\* http.ListenAndServe / http.ListenAndServeTLS: the listener binds and
\* serves, or the call returns an error.
Listen(l) ==
    /\ proc = "running"
    /\ lst[l] = "off"
    /\ IF l = "http" THEN mainPc = "serve" ELSE tlsPc = "spawned"
    /\ \E bound \in BOOLEAN :
         IF bound
         THEN /\ lst' = [lst EXCEPT ![l] = "listening"]
              /\ UNCHANGED <<proc, stderr>>
         ELSE /\ lst' = [lst EXCEPT ![l] = "failed"]
              /\ stderr' = ReportListenError(l, stderr)
              /\ proc' = AfterListenReturn(l, proc)
    /\ UNCHANGED <<config, mainPc, tlsPc, writer>>
    /\ UNCHANGED <<logVars, reqVars>>

\* ---------------------------------------------------------------- handlers
\* HandlerOf with one chain handed to both listeners.
HandlerOfOneChain(cfg, l) == "GZip"

\* The handler main gave the listener's Log: SslHandler on the plain-HTTP
\* listener when SSL is enabled, the GZip chain otherwise.
HandlerOf(cfg, l) ==
    IF cfg.SslEnabled /\ l = "http" THEN "Ssl" ELSE "GZip"

\* W for a chain that keeps one recorder for all requests.
WSharedRecorder(r) == [lw |-> lw[1], sink |-> sink[r]]

\* The sink Log.ServeHTTP hands down for request r: the recorder it built
\* for this request around this request's response.
W(r) == [lw |-> lw[r], sink |-> sink[r]]

\* Where control goes when the handler below GZip returns: to GZip's deferred
\* gz.Close() if a compressor was installed, else straight to Log's deferred
\* function.
Unwind(g) == IF g.on THEN "gzclose" ELSE "logdefer"

\* Log.ServeHTTP up to the call of the inner handler, for a request that
\* arrives on a listening listener.
LogServeHTTP(r, inputs) ==
    /\ proc = "running"
    /\ pc[r] = "idle"
    /\ \E i \in inputs :
         /\ lst[i.listener] = "listening"
         /\ req' = [req EXCEPT ![r] = i]
         /\ pc' = [pc EXCEPT ![r] = HandlerOf(config, i.listener)]
    /\ lw' = [lw EXCEPT ![r] = NewWriter]
    /\ hist' = [hist EXCEPT ![r].visited = @ \cup {"Log"}]
    /\ UNCHANGED <<gz, sink, pending, logged, stderr>>
    /\ UNCHANGED <<mainVars, logVars>>

\* The URI GZip.ServeHTTP matches the pattern against.
MatchURI(uri) == IF uri = s_root THEN uri \o s_index ELSE uri

\* Compress without the look at Accept-Encoding.
CompressAnyClient(cfg, rq) == RegexpMatch(cfg.Gzip, MatchURI(rq.RequestURI))

\* GZip.ServeHTTP's decision to compress.
Compress(cfg, rq) ==
    /\ Contains(rq.AcceptEncoding, s_gzip)
    /\ RegexpMatch(cfg.Gzip, MatchURI(rq.RequestURI))

\* GZip.ServeHTTP going on to the inner handler with the header left alone.
SetContentEncodingSkipped(s) == s

\* w.Header().Set("Content-Encoding", "gzip")
SetContentEncoding(s) == [s EXCEPT !.hdr.ce = s_gzip]

\* GZip.ServeHTTP up to the call of the inner handler.
GZipServeHTTP(r) ==
    /\ proc = "running"
    /\ pc[r] = "GZip"
    /\ IF Compress(config, req[r])
       THEN /\ sink' = [sink EXCEPT ![r] = SetContentEncoding(@)]
            /\ gz' = [gz EXCEPT ![r] = NewGzipWriter]
            /\ hist' = [hist EXCEPT ![r].visited = @ \cup {"GZip"},
                                    ![r].handlerW = "GzipWriter"]
       ELSE /\ hist' = [hist EXCEPT ![r].visited = @ \cup {"GZip"},
                                    ![r].handlerW = "Writer"]
            /\ UNCHANGED <<sink, gz>>
    /\ pc' = [pc EXCEPT ![r] = "Handler"]
    /\ UNCHANGED <<req, lw, pending, logged, stderr>>
    /\ UNCHANGED <<mainVars, logVars>>

\* StackWriteHeader for a GzipWriter built around the response itself
\* instead of the recorder it was handed.
StackWriteHeaderPastRecorder(g, w, code) ==
    IF g.on THEN [g |-> g, w |-> [w EXCEPT !.sink = ResponseWriteHeader(@, code)]]
    ELSE [g |-> g, w |-> WriterWriteHeader(w, code)]

\* A WriteHeader on the sink the handler below GZip was given: GzipWriter has
\* no WriteHeader of its own, the embedded ResponseWriter's runs.
StackWriteHeader(g, w, code) == [g |-> g, w |-> WriterWriteHeader(w, code)]

\* w.Header() on that sink: neither GzipWriter nor Writer has a Header of
\* its own, the call lands on the response's header map.  Here the handler
\* sets Content-Type in it.
StackSetContentType(g, w) == [g |-> g, w |-> [w EXCEPT !.sink.hdr.ctype = TRUE]]

\* The file server before its first call on the sink: it sets the
\* Content-Type header.
FileHeaders(first, g, w) == IF first THEN StackSetContentType(g, w).w ELSE w

\* A Write on that sink: GzipWriter.Write when the compressor is installed,
\* Writer.Write otherwise.
StackWrite(g, w, b) ==
    IF g.on THEN GzipWrite(g, w, b)
    ELSE [g |-> g, w |-> WriterWrite(w, b).w]

\* HostMatches with the case of the letters ignored.
HostMatchesAnyCase(cfg, rq) == Index(ToLower(rq.Host), ToLower(cfg.Hostname)) # -1

\* Handler.ServeHTTP's test of the Host header.
HostMatches(cfg, rq) == Index(rq.Host, cfg.Hostname) # -1

\* http.NotFound: status 404, then the body.
NotFound(g, w) ==
    LET h == StackWriteHeader(g, w, 404)
    IN StackWrite(h.g, h.w, NotFoundBody)

\* Handler.ServeHTTP: delegate to the file server, or answer 404.
HandlerServeHTTP(r) ==
    /\ proc = "running"
    /\ pc[r] = "Handler"
    /\ IF HostMatches(config, req[r])
       THEN /\ pc' = [pc EXCEPT ![r] = "files"]
            /\ hist' = [hist EXCEPT ![r].visited = @ \cup {"Handler"},
                                    ![r].files = TRUE,
                                    ![r].filesW = hist[r].handlerW]
            /\ UNCHANGED <<lw, gz, sink>>
       ELSE LET o == NotFound(gz[r], W(r))
            IN /\ pc' = [pc EXCEPT ![r] = Unwind(gz[r])]
               /\ lw' = [lw EXCEPT ![r] = o.w.lw]
               /\ sink' = [sink EXCEPT ![r] = o.w.sink]
               /\ gz' = [gz EXCEPT ![r] = o.g]
               /\ hist' = [hist EXCEPT ![r].visited = @ \cup {"Handler"},
                                       ![r].written = @ \o NotFoundBody,
                                       ![r].calls = <<404, 0>>]
    /\ UNCHANGED <<req, pending, logged, stderr>>
    /\ UNCHANGED <<mainVars, logVars>>

\* The file server sets a status.
FileWriteHeader(r, statuses) ==
    /\ proc = "running"
    /\ pc[r] = "files"
    /\ hist[r].ops < MaxOps
    /\ \E code \in statuses :
         LET w0 == FileHeaders(hist[r].ops = 0, gz[r], W(r))
             o == StackWriteHeader(gz[r], w0, code)
         IN /\ lw' = [lw EXCEPT ![r] = o.w.lw]
            /\ sink' = [sink EXCEPT ![r] = o.w.sink]
            /\ hist' = [hist EXCEPT ![r].ops = @ + 1,
                                    ![r].calls = Append(@, code)]
    /\ UNCHANGED <<pc, req, gz, pending, logged, stderr>>
    /\ UNCHANGED <<mainVars, logVars>>

\* The file server writes a slice of the body.
FileWrite(r, chunks) ==
    /\ proc = "running"
    /\ pc[r] = "files"
    /\ hist[r].ops < MaxOps
    /\ \E b \in chunks :
         LET w0 == FileHeaders(hist[r].ops = 0, gz[r], W(r))
             o == StackWrite(gz[r], w0, b)
         IN /\ lw' = [lw EXCEPT ![r] = o.w.lw]
            /\ sink' = [sink EXCEPT ![r] = o.w.sink]
            /\ gz' = [gz EXCEPT ![r] = o.g]
            /\ hist' = [hist EXCEPT ![r].ops = @ + 1,
                                    ![r].written = @ \o b,
                                    ![r].calls = Append(@, 0)]
    /\ UNCHANGED <<pc, req, pending, logged, stderr>>
    /\ UNCHANGED <<mainVars, logVars>>

\* The file server returns.
FileReturn(r) ==
    /\ proc = "running"
    /\ pc[r] = "files"
    /\ pc' = [pc EXCEPT ![r] = Unwind(gz[r])]
    /\ UNCHANGED <<req, lw, gz, sink, pending, logged, hist, stderr>>
    /\ UNCHANGED <<mainVars, logVars>>

\* PanicUnwind for a chain that logs after the call instead of deferring:
\* the panic leaves Log.ServeHTTP at once.
PanicSkipsDeferred(g) == "done"

\* PanicUnwind for a GZip.ServeHTTP that closes the compressor after the
\* call instead of deferring the Close: the panic passes it by.
PanicSkipsClose(g) == "logdefer"

\* Where control goes when the handler below GZip panics: the panic unwinds
\* through the same deferred calls a return runs.
PanicUnwind(g) == Unwind(g)

\* The file server panics.
FilePanic(r) ==
    /\ proc = "running"
    /\ pc[r] = "files"
    /\ pc' = [pc EXCEPT ![r] = PanicUnwind(gz[r])]
    /\ hist' = [hist EXCEPT ![r].panicked = TRUE]
    /\ UNCHANGED <<req, lw, gz, sink, pending, logged, stderr>>
    /\ UNCHANGED <<mainVars, logVars>>

\* The client goes away while its request is being handled: the response
\* takes no more bytes.
ClientGone(r) ==
    /\ proc = "running"
    /\ pc[r] \in {"GZip", "Handler", "files", "gzclose", "Ssl"}
    /\ ~sink[r].broken
    /\ sink' = [sink EXCEPT ![r].broken = TRUE]
    /\ UNCHANGED <<pc, req, lw, gz, pending, logged, hist, stderr>>
    /\ UNCHANGED <<mainVars, logVars>>

\* GZip.ServeHTTP's deferred gz.Close().
GZipDeferredClose(r) ==
    /\ proc = "running"
    /\ pc[r] = "gzclose"
    /\ LET o == GzipClose(gz[r], W(r))
       IN /\ lw' = [lw EXCEPT ![r] = o.w.lw]
          /\ sink' = [sink EXCEPT ![r] = o.w.sink]
          /\ gz' = [gz EXCEPT ![r] = [o.g EXCEPT !.closes = @ + 1]]
    /\ pc' = [pc EXCEPT ![r] = "logdefer"]
    /\ UNCHANGED <<req, pending, logged, hist, stderr>>
    /\ UNCHANGED <<mainVars, logVars>>

\* SslHandler.ServeHTTP: the request's URL gets the scheme "https", the
\* response the Strict-Transport-Security header, then http.Redirect sets
\* Location, sends 301 and, for a GET, writes a short body.
SslRedirect(rq, w) ==
    LET u == [rq.URL EXCEPT !.Scheme = s_https]
        w1 == [w EXCEPT !.sink.hdr.hsts = TRUE,
                        !.sink.hdr.loc = URLString(u)]
        w2 == WriterWriteHeader(w1, 301)
    IN [rq |-> [rq EXCEPT !.URL = u],
        w |-> IF rq.Method = "GET" THEN WriterWrite(w2, RedirectBody).w ELSE w2]

SslServeHTTP(r) ==
    /\ proc = "running"
    /\ pc[r] = "Ssl"
    /\ LET o == SslRedirect(req[r], W(r))
       IN /\ req' = [req EXCEPT ![r] = o.rq]
          /\ lw' = [lw EXCEPT ![r] = o.w.lw]
          /\ sink' = [sink EXCEPT ![r] = o.w.sink]
    /\ hist' = [hist EXCEPT ![r].visited = @ \cup {"Ssl"},
                            ![r].calls = IF req[r].Method = "GET"
                                         THEN <<301, 0>> ELSE <<301>>]
    /\ pc' = [pc EXCEPT ![r] = "logdefer"]
    /\ UNCHANGED <<gz, pending, logged, stderr>>
    /\ UNCHANGED <<mainVars, logVars>>

\* strings.LastIndex(s, sub), for a one-character sub.
LastIndex(s, sub) ==
    LET hits == {i \in 0..(Len(s) - Len(sub)) :
                    SubSeq(s, i + 1, i + Len(sub)) = sub}
    IN IF hits = {} THEN -1
       ELSE CHOOSE i \in hits : \A j \in hits : i >= j

\* Trim taking the characters of cutset out of s wherever they stand.
TrimEverywhere(s, cutset) ==
    LET Kept(c) == c \notin cutset
    IN SelectSeq(s, Kept)

\* strings.Trim(s, cutset): s without its leading and trailing characters
\* that are in cutset.
Trim(s, cutset) ==
    LET keep == {i \in 1..Len(s) : s[i] \notin cutset}
    IN IF keep = {} THEN s_empty
       ELSE LET lo == CHOOSE i \in keep : \A j \in keep : i <= j
                hi == CHOOSE i \in keep : \A j \in keep : i >= j
            IN SubSeq(s, lo, hi)

\* The address Log.ServeHTTP's deferred function prints.
LogAddr(remoteAddr) ==
    LET idx == LastIndex(remoteAddr, <<":">>)
        addr == IF idx > 0 THEN SubSeq(remoteAddr, 1, idx) ELSE remoteAddr
    IN Trim(addr, {"[", "]"})

\* LogValues for a deferred call whose arguments are evaluated where the
\* defer statement stands, before the inner handler runs: the recorder's
\* fields are read at their zero values.
LogValuesAtDefer(rq, rec) ==
    [addr |-> LogAddr(rq.RemoteAddr), method |-> rq.Method,
     uri |-> rq.RequestURI, status |-> 0, bytes |-> 0]

\* The values the deferred function formats: the recorder's fields as they
\* stand when it runs.
LogValues(rq, rec) ==
    [addr |-> LogAddr(rq.RemoteAddr), method |-> rq.Method,
     uri |-> rq.RequestURI, status |-> rec.Status, bytes |-> rec.Bytes]

\* The fields of "%s [%s] %s \"%s\" %d %d \"%s\" \"%s\"\n", the newline last.
LineFields ==
    <<"addr", "time", "method", "uri", "status", "bytes", "referer",
      "agent", "newline">>

\* One request's formatted line: a token per field.
FormatLine(r) == [i \in 1..Len(LineFields) |-> [req |-> r, field |-> LineFields[i]]]

\* Fprintf writing the line and its newline in two calls.
FprintfThenNewline(line) == <<SubSeq(line, 1, Len(line) - 1), <<line[Len(line)]>>>>

\* fmt.Fprintf: the line is formatted into a buffer and handed to the sink
\* in one Write call.  The result is the sequence of Write calls.
Fprintf(line) == <<line>>

\* Log.ServeHTTP's deferred function: format the line.
LogDeferred(r) ==
    /\ proc = "running"
    /\ pc[r] = "logdefer"
    /\ logged' = [logged EXCEPT ![r] = LogValues(req[r], lw[r])]
    /\ pending' = [pending EXCEPT ![r] = Fprintf(FormatLine(r))]
    /\ pc' = [pc EXCEPT ![r] = "logwrite"]
    /\ UNCHANGED <<req, lw, gz, sink, hist, stderr>>
    /\ UNCHANGED <<mainVars, logVars>>

\* Whether the log sink takes a write: the file only if its handle does.
LogSinkTakes(wr) == wr = "stdout" \/ (wr = "file" /\ HandleWritable(OpenFlags))

\* One Write call on the log sink, the call Fprintf makes; its error is not
\* looked at.  After the last one Log.ServeHTTP is over, and a panic goes on
\* to net/http, which reports it.
LogWrite(r) ==
    /\ proc = "running"
    /\ pc[r] = "logwrite"
    /\ pending[r] # << >>
    /\ LET chunk == Head(pending[r])
           took == LogSinkTakes(writer)
       IN /\ fileLog' = IF took /\ writer = "file" THEN fileLog \o chunk ELSE fileLog
          /\ stdoutLog' = IF took /\ writer = "stdout" THEN stdoutLog \o chunk
                          ELSE stdoutLog
          /\ hist' = [hist EXCEPT ![r].logIssued = Append(@, chunk),
                                  ![r].lost = @ \/ ~took]
    /\ pending' = [pending EXCEPT ![r] = Tail(@)]
    /\ IF Len(pending[r]) = 1
       THEN /\ pc' = [pc EXCEPT ![r] = "done"]
            /\ stderr' = IF hist[r].panicked
                         THEN stderr \cup {"http: panic serving"} ELSE stderr
       ELSE UNCHANGED <<pc, stderr>>
    /\ UNCHANGED <<req, lw, gz, sink, logged>>
    /\ UNCHANGED mainVars

\* ------------------------------------------------------- specifications
Main == MainOpenLog \/ MainStart \/ \E l \in Listeners : Listen(l)

Serve(r, inputs, statuses, chunks) ==
    \/ LogServeHTTP(r, inputs)
    \/ GZipServeHTTP(r)
    \/ HandlerServeHTTP(r)
    \/ FileWriteHeader(r, statuses)
    \/ FileWrite(r, chunks)
    \/ FileReturn(r)
    \/ FilePanic(r)
    \/ GZipDeferredClose(r)
    \/ SslServeHTTP(r)
    \/ LogDeferred(r)
    \/ LogWrite(r)

\* One request, any of the requests a connection may carry, on a connection
\* the client may drop.
Next == Main \/ Serve(1, FullInputs, FileStatuses, Chunks) \/ ClientGone(1)

Spec == Init /\ [][Next]_vars

\* Every request at once, each on a connection of its own.
NextConc == Main \/ \E r \in Reqs : Serve(r, NarrowInputs, NarrowStatuses, NarrowChunks)

SpecConc == Init /\ [][NextConc]_vars

\* One request from any remote address, at the point where the inner chain
\* has returned without touching the response and Log.ServeHTTP's deferred
\* function is about to run.
InitAddr ==
    /\ config \in {c \in Configs : ~c.SslEnabled}
    /\ mainPc = "serve"
    /\ tlsPc = "none"
    /\ writer \in {"file", "stdout"}
    /\ lst = [l \in Listeners |-> IF l = "http" THEN "listening" ELSE "off"]
    /\ proc = "running"
    /\ stderr = {}
    /\ fileLog = << >>
    /\ stdoutLog = << >>
    /\ pc = [r \in Reqs |-> IF r = 1 THEN "logdefer" ELSE "idle"]
    /\ \E a \in AddrInputs :
         req = [r \in Reqs |->
                  IF r = 1 THEN NewRequest("http", s_ab, s_empty, s_root, "GET", a)
                  ELSE NoRequest]
    /\ lw = [r \in Reqs |-> NewWriter]
    /\ gz = [r \in Reqs |-> NoGzip]
    /\ sink = [r \in Reqs |-> NewSink]
    /\ pending = [r \in Reqs |-> << >>]
    /\ logged = [r \in Reqs |-> NoLine]
    /\ hist = [r \in Reqs |->
                 IF r = 1
                 THEN [NoHist EXCEPT !.visited = {"Log", "GZip", "Handler"},
                                     !.files = TRUE,
                                     !.handlerW = "Writer",
                                     !.filesW = "Writer"]
                 ELSE NoHist]

NextAddr == LogDeferred(1) \/ LogWrite(1)

SpecAddr == InitAddr /\ [][NextAddr]_vars

\* ================================================================ claims
\* Notions the claims are stated in, defined apart from the operators above.
HasSubstring(s, sub) ==
    \E i \in 1..(Len(s) - Len(sub) + 1) :
        \A k \in 1..Len(sub) : s[i + k - 1] = sub[k]

\* The request is past Log.ServeHTTP's call of its inner handler and the
\* inner chain is over: the deferred function is next, running or done.
ChainOver(r) == pc[r] \in {"logdefer", "logwrite", "done"}

\* The path with "/" read as "/index.html" ends, whatever the case of its
\* letters, in "." and one of the extensions.
PathHasExtension(path, exts) ==
    LET p == IF path = s_root THEN s_root \o s_index ELSE path
    IN \E i \in 1..Len(exts) :
        LET suf == <<".">> \o exts[i]
        IN /\ Len(suf) <= Len(p)
           /\ \A k \in 1..Len(suf) :
                Lower(p[Len(p) - Len(suf) + k]) = Lower(suf[k])

\* The log is a sequence of whole lines, each of one request.
CompleteLines(log) ==
    LET n == Len(LineFields)
    IN /\ Len(log) % n = 0
       /\ \A k \in 0..((Len(log) \div n) - 1) :
            \E r \in Reqs : SubSeq(log, k * n + 1, (k + 1) * n) = FormatLine(r)

\* C1: every request handled by Log.ServeHTTP gets exactly one Write of its
\* one complete line on the log sink, whether the inner handler returned or
\* panicked: none before the inner chain is over, never more than one, and
\* exactly one, the whole line, once Log.ServeHTTP is over.
C1_ExactlyOneLogWrite ==
    \A r \in Reqs :
        /\ Len(hist[r].logIssued) <= 1
        /\ ~ChainOver(r) => hist[r].logIssued = << >>
        /\ pc[r] = "done" => hist[r].logIssued = <<FormatLine(r)>>

\* A request whose file server panicked is over, with its one log write made.
C1_Witness ==
    \E r \in Reqs :
        /\ pc[r] = "done"
        /\ hist[r].panicked
        /\ Len(hist[r].logIssued) = 1

\* C2: the byte count in the log line equals the number of bytes the
\* underlying sink took, also when the sink refuses a write.
C2_LoggedBytesAreDelivered ==
    \A r \in Reqs :
        pc[r] \in {"logwrite", "done"} =>
            logged[r].bytes = Len(sink[r].delivered)

\* C3: on a request whose Accept-Encoding lacks "gzip", GZip.ServeHTTP sets
\* no Content-Encoding, hands the original sink (the recorder, no compressing
\* wrapper) to the inner handler, and the bytes the inner handler writes are
\* the bytes the sink is handed.
C3_NoGzipWithoutAcceptEncoding ==
    \A r \in Reqs :
        ("GZip" \in hist[r].visited /\ ~HasSubstring(req[r].AcceptEncoding, s_gzip)) =>
            /\ sink[r].hdr.ce = s_empty
            /\ sink[r].sent.ce = s_empty
            /\ ~gz[r].on
            /\ hist[r].handlerW = "Writer"
            /\ sink[r].offered = hist[r].written

\* A request for a compressible path whose Accept-Encoding names no "gzip" is
\* over and its body went to the sink.
C3_Witness ==
    \E r \in Reqs :
        /\ pc[r] = "done"
        /\ req[r].AcceptEncoding = s_GZIP
        /\ req[r].RequestURI = s_a_HTML
        /\ hist[r].files
        /\ Len(hist[r].written) >= 2
        /\ sink[r].delivered = hist[r].written

\* C4: GZip.ServeHTTP sets Content-Encoding: gzip and installs the
\* compressing wrapper exactly when Accept-Encoding contains "gzip" and the
\* path of the URL (not its query) ends in a configured extension.
C4_CompressIffPathMatches ==
    \A r \in Reqs :
        "GZip" \in hist[r].visited =>
            ((gz[r].on /\ sink[r].hdr.ce = s_gzip) <=>
                (/\ HasSubstring(req[r].AcceptEncoding, s_gzip)
                 /\ PathHasExtension(req[r].URL.Path, config.Gzip)))

\* C5 as stated: once GZip.ServeHTTP has returned on a compressed request,
\* the bytes the sink took are a complete compressed stream that decompresses
\* to what the inner handler wrote.
C5_StreamDecompressesToWritten ==
    \A r \in Reqs :
        (gz[r].on /\ ChainOver(r)) =>
            Gunzip(sink[r].delivered) = [ok |-> TRUE, data |-> hist[r].written]

\* C5, amended: the same, provided the underlying sink took every write in
\* full (the status allows a body and the connection held).
C5_StreamDecompressesUnlessRefused ==
    \A r \in Reqs :
        (gz[r].on /\ ChainOver(r) /\ ~sink[r].failed) =>
            Gunzip(sink[r].delivered) = [ok |-> TRUE, data |-> hist[r].written]

\* A compressed request is over, the sink took everything, and the handler
\* wrote enough for a block to go out before the close.
C5_Witness ==
    \E r \in Reqs :
        /\ gz[r].on
        /\ pc[r] = "done"
        /\ ~sink[r].failed
        /\ Len(hist[r].written) >= FlateWindow
        /\ sink[r].delivered # hist[r].written

\* C6: when the Host header lacks the configured hostname (as a
\* case-sensitive substring) Handler.ServeHTTP answers 404 and the file
\* server is never invoked; when it contains it, the file server is invoked
\* with the sink Handler.ServeHTTP was given.
C6_HostFilter ==
    \A r \in Reqs :
        "Handler" \in hist[r].visited =>
            IF HasSubstring(req[r].Host, config.Hostname)
            THEN hist[r].files /\ hist[r].filesW = hist[r].handlerW
            ELSE sink[r].status = 404 /\ lw[r].Status = 404 /\ ~hist[r].files

\* A request whose Host differs from the hostname only in case got its 404.
C6_Witness ==
    \E r \in Reqs :
        /\ pc[r] = "done"
        /\ req[r].Host = s_AB
        /\ sink[r].status = 404
        /\ ~hist[r].files

\* C7: with SSL enabled, a request on the plain-HTTP listener never reaches
\* GZip, Handler or the file server and is answered 301 with an https
\* Location and Strict-Transport-Security; a request on the HTTPS listener
\* never gets Strict-Transport-Security.
C7_RedirectOnPlainHTTP ==
    \A r \in Reqs :
        (config.SslEnabled /\ pc[r] # "idle") =>
            IF req[r].listener = "http"
            THEN /\ hist[r].visited \cap {"GZip", "Handler"} = {}
                 /\ ~hist[r].files
                 /\ ChainOver(r) =>
                      /\ sink[r].status = 301
                      /\ SchemeOf(sink[r].sent.loc) = s_https
                      /\ sink[r].sent.hsts
            ELSE ~sink[r].hdr.hsts /\ ~sink[r].sent.hsts

\* A POST for a foreign Host on the plain-HTTP listener was redirected.
C7_Witness ==
    \E r \in Reqs :
        /\ config.SslEnabled
        /\ req[r].listener = "http"
        /\ req[r].Method = "POST"
        /\ req[r].Host = s_AB
        /\ pc[r] = "done"
        /\ sink[r].status = 301

\* C8: a listener that ended with an error has had its error reported.
C8_ListenErrorSurfaced ==
    \A l \in Listeners :
        lst[l] = "failed" => "listen error" \in stderr

\* C9: a log file whose handle takes no writes is not the log sink, and the
\* line of every request that is over is in the log file or on the default
\* stream.
C9_NoLogLineLost ==
    /\ writer = "file" => HandleWritable(OpenFlags)
    /\ \A r \in Reqs :
         pc[r] = "done" =>
            \E log \in {fileLog, stdoutLog} :
                \E i \in 1..Len(log) : log[i].req = r

\* C10: with requests completing concurrently, each line reaches the log
\* sink as one write of the whole line, and the sink's content is always a
\* sequence of complete lines, none holding a piece of another's.
C10_WholeLines ==
    /\ \A r \in Reqs :
         \A i \in 1..Len(hist[r].logIssued) : hist[r].logIssued[i] = FormatLine(r)
    /\ CompleteLines(stdoutLog)
    /\ CompleteLines(fileLog)

\* Both requests were handled at once and both lines are on the default
\* stream, the second request's first.
C10_Witness ==
    /\ stdoutLog = FormatLine(2) \o FormatLine(1)
    /\ pc[1] = "done"
    /\ pc[2] = "done"

\* The request's log line has been formatted.
LineFormatted(r) == pc[r] \in {"logwrite", "done"}

HasColon(s) == \E i \in 1..Len(s) : s[i] = ":"

\* The part of s before its last ":".
BeforeLastColon(s) ==
    LET i == CHOOSE k \in 1..Len(s) :
                 s[k] = ":" /\ \A j \in (k + 1)..Len(s) : s[j] # ":"
    IN SubSeq(s, 1, i - 1)

IsBracket(c) == c \in {"[", "]"}

\* s with the brackets at its two ends taken off.
RECURSIVE WithoutEnclosingBrackets(_)
WithoutEnclosingBrackets(s) ==
    IF s = << >> THEN s
    ELSE IF IsBracket(Head(s)) THEN WithoutEnclosingBrackets(Tail(s))
    ELSE IF IsBracket(s[Len(s)])
         THEN WithoutEnclosingBrackets(SubSeq(s, 1, Len(s) - 1))
    ELSE s

\* C11: for every remote address that contains a ":", at any position, the
\* first included, the address in the log line is the part before the last
\* ":" with its enclosing brackets removed.
C11_TruncatedAtLastColon ==
    \A r \in Reqs :
        (LineFormatted(r) /\ HasColon(req[r].RemoteAddr)) =>
            logged[r].addr =
                WithoutEnclosingBrackets(BeforeLastColon(req[r].RemoteAddr))

\* C12 as stated: for every remote address without ":", the address in the
\* log line is the input unchanged, brackets included.
C12_NoColonUnchanged ==
    \A r \in Reqs :
        (LineFormatted(r) /\ ~HasColon(req[r].RemoteAddr)) =>
            logged[r].addr = req[r].RemoteAddr

\* C12, amended: for every remote address without ":", the address in the
\* log line is the input without the brackets at its two ends, every
\* character between them kept; it is the input itself when the input
\* neither starts nor ends with a bracket.
C12_NoColonOnlyEndBracketsStripped ==
    \A r \in Reqs :
        (LineFormatted(r) /\ ~HasColon(req[r].RemoteAddr)) =>
            LET a == req[r].RemoteAddr
            IN /\ logged[r].addr = WithoutEnclosingBrackets(a)
               /\ (a # << >> /\ ~IsBracket(a[1]) /\ ~IsBracket(a[Len(a)])) =>
                     logged[r].addr = a

\* An address without ":" that has brackets at an end and between other
\* characters was logged with the inner one kept.
C12_Witness ==
    \E r \in Reqs :
        /\ pc[r] = "done"
        /\ req[r].RemoteAddr = <<"[", "h", "[", "h", "]">>
        /\ logged[r].addr = <<"h", "[", "h">>

\* The status codes among the calls the handler made on its sink, in order.
IsStatusCall(c) == c # 0
StatusCalls(r) == SelectSeq(hist[r].calls, IsStatusCall)

\* The handler wrote body bytes.
WroteBody(r) == hist[r].written # << >>

\* C13: the recorder's status is the last value passed to WriteHeader, and
\* 200 when the handler wrote body bytes without ever calling WriteHeader;
\* the log line carries the recorder's status.
C13_StatusLastSetOrDefault200 ==
    \A r \in Reqs :
        LineFormatted(r) =>
            /\ logged[r].status = lw[r].Status
            /\ StatusCalls(r) # << >> =>
                  lw[r].Status = StatusCalls(r)[Len(StatusCalls(r))]
            /\ (StatusCalls(r) = << >> /\ WroteBody(r)) => lw[r].Status = 200

\* C14: on every request for which GZip.ServeHTTP installs a compressor, the
\* compressor is closed exactly once, after the inner handler is over and
\* before GZip.ServeHTTP has returned to Log.ServeHTTP, when the inner
\* handler returns and when it panics; where no compressor is installed
\* nothing is closed.
C14_ClosedExactlyOnce ==
    \A r \in Reqs :
        /\ gz[r].closes <= 1
        /\ ~gz[r].on => gz[r].closes = 0
        /\ pc[r] \in {"Handler", "files", "gzclose"} => gz[r].closes = 0
        /\ (gz[r].on /\ ChainOver(r)) => gz[r].closes = 1

\* A compressed request whose file server panicked after a write is over and
\* its compressor was closed.
C14_Witness ==
    \E r \in Reqs :
        /\ pc[r] = "done"
        /\ gz[r].on
        /\ hist[r].panicked
        /\ hist[r].written # << >>
        /\ gz[r].closes = 1

\* C15: on every request that is compressed, the Content-Encoding header is
\* "gzip" in the response's header map from the moment the compressor is
\* installed, so it is in the header the response sends with its status: no
\* status and no body byte reaches the response while the header is unset.
C15_EncodingSetBeforeFirstByte ==
    \A r \in Reqs :
        gz[r].on =>
            /\ sink[r].hdr.ce = s_gzip
            /\ (sink[r].status # 0 \/ sink[r].offered # << >>) =>
                  sink[r].sent.ce = s_gzip

\* A compressed request whose handler set a status first and whose
\* compressed bytes the response took.
C15_Witness ==
    \E r \in Reqs :
        /\ gz[r].on
        /\ Len(hist[r].calls) > 1
        /\ hist[r].calls[1] = 200
        /\ sink[r].delivered # << >>
        /\ sink[r].sent.ce = s_gzip

\* C16: with the compressor installed only byte writes are diverted: every
\* WriteHeader the handler calls on the GzipWriter reaches the recorder and
\* the response with the same code and in the same order (the recorder holds
\* the last, the response got them all and sent the one set before any
\* byte), the header the handler sets through it is in the response's header
\* map and goes out with the status, and the bytes the response gets are the
\* compressor's, not the handler's.
C16_OnlyWritesDiverted ==
    \A r \in Reqs :
        gz[r].on =>
            /\ sink[r].codes = StatusCalls(r)
            /\ StatusCalls(r) # << >> =>
                  lw[r].Status = StatusCalls(r)[Len(StatusCalls(r))]
            /\ (hist[r].calls # << >> /\ hist[r].calls[1] # 0) =>
                  sink[r].status = hist[r].calls[1]
            /\ (hist[r].files /\ hist[r].calls # << >>) =>
                  /\ sink[r].hdr.ctype
                  /\ sink[r].status # 0 => sink[r].sent.ctype
            /\ Len(sink[r].offered) >= Len(GzHeader) =>
                  SubSeq(sink[r].offered, 1, Len(GzHeader)) = GzHeader

\* A compressed request whose file server set two statuses, then returned.
C16_Witness ==
    \E r \in Reqs :
        /\ gz[r].on
        /\ pc[r] = "done"
        /\ hist[r].calls = <<200, 304>>
        /\ sink[r].codes = <<200, 304>>
        /\ lw[r].Status = 304
        /\ sink[r].sent.ctype

\* C17: SslHandler.ServeHTTP leaves the request as it got it: every field of
\* the request, its URL and the URL's scheme included, has after the
\* handler ran the value it had before.
C17_RequestNotMutated ==
    [][\A r \in Reqs : pc[r] = "Ssl" => req'[r] = req[r]]_vars

\* The status and the byte count request r's own calls give: the code of its
\* last WriteHeader (0 without one), and the number of bytes handed to its
\* own response, which without compression is the number of bytes its
\* handler wrote.
OwnStatus(r) ==
    IF StatusCalls(r) = << >> THEN 0 ELSE StatusCalls(r)[Len(StatusCalls(r))]
OwnBytes(r) == Len(sink[r].offered)

\* C18: each request has a recorder and a compressor of its own, so with
\* requests handled at once, in any interleaving, the status and the byte
\* count of a request's log line are those of its own WriteHeader calls and
\* writes, and its compressor, while the response took what it emitted,
\* took its own handler's bytes only.
C18_LogLineFromOwnCalls ==
    \A r \in Reqs :
        /\ (gz[r].on /\ ~gz[r].err) => gz[r].size = Len(hist[r].written)
        /\ LineFormatted(r) =>
             /\ logged[r].status = OwnStatus(r)
             /\ logged[r].bytes = OwnBytes(r)
             /\ (hist[r].files /\ ~gz[r].on) =>
                   logged[r].bytes = Len(hist[r].written)

\* Two requests handled at once, both compressed, with their lines
\* formatted and not yet written, of different statuses and byte counts.
C18_Witness ==
    /\ pc[1] = "logwrite"
    /\ pc[2] = "logwrite"
    /\ gz[1].on
    /\ gz[2].on
    /\ logged[1].status # logged[2].status
    /\ logged[1].bytes # logged[2].bytes

\* C19: in the chain Log -> GZip -> Handler the compressor is closed before
\* the log line is formatted, on return and on panic, and what the close
\* emits goes through the recorder: the byte count of the line includes the
\* trailing bytes of the stream, and no byte reaches the recorder once the
\* line is formatted (the count of the line stays the recorder's count, and
\* the recorder's count the number of bytes handed to the response).
C19_CloseBeforeLogLine ==
    \A r \in Reqs :
        ("GZip" \in hist[r].visited /\ LineFormatted(r)) =>
            /\ gz[r].on => gz[r].closes = 1
            /\ logged[r].bytes = lw[r].Bytes
            /\ lw[r].Bytes = Len(sink[r].offered)
            /\ (gz[r].on /\ ~gz[r].err) =>
                  LET n == Len(sink[r].offered)
                  IN /\ n >= Len(GzHeader) + 3
                     /\ SubSeq(sink[r].offered, n - 1, n) = <<gz[r].sum, gz[r].size>>
                     /\ logged[r].bytes = n

\* A compressed request whose file server panicked after a write is over:
\* its line counts the whole stream, trailer included.
C19_Witness ==
    \E r \in Reqs :
        /\ pc[r] = "done"
        /\ gz[r].on
        /\ ~gz[r].err
        /\ hist[r].panicked
        /\ hist[r].written = <<1, 1>>
        /\ logged[r].bytes = Len(sink[r].offered)
        /\ sink[r].offered = GzHeader \o <<2, 1, 0>> \o <<2, 2>>

\* C20: whatever WriteHeader calls and writes the handler makes, none, one or
\* several and in any order, the status in the log line is the status the
\* response sent: the first one assigned, or 200 when a write came first.
C20_LoggedStatusIsSentStatus ==
    \A r \in Reqs :
        (LineFormatted(r) /\ sink[r].status # 0) =>
            logged[r].status = sink[r].status

====
